---------------------------- MODULE Spec2Model ----------------------------
(***************************************************************************)
(* Model of the category-aware retrieval pipeline of the Microsoft Learn   *)
(* RAG assistant: the category router (category_mappings.py), the          *)
(* retrieval engine (model.py), the index builders (generate_embeddings.py,*)
(* rebuild_index.py) and the corpus cleaner's batch loop (data/clean.py).  *)
(*                                                                         *)
(* Conventions.  A Python str that is inspected character by character (a  *)
(* query, a keyword) is the sequence of its characters.  An embedding      *)
(* vector is identified by the text it was computed from; similarities are *)
(* integer hundredths (0.40 is 40).  A document's content is identified by *)
(* the row that holds it and its revision.                                 *)
(***************************************************************************)
EXTENDS Integers, Sequences, FiniteSets, TLC

VARIABLES
    documents,   \* the documents table of microsoft_docs.db: rowid -> row
    indexFile,   \* the file microsoft_learn_index.faiss
    engine,      \* model.py module state: startup status, index, doc_count
    ret,         \* the last retrieve_documents call and what it did
    route,       \* a get_categories_for_query call: its argument and result
    emb,         \* the Embedder object and the position of main()
    rb,          \* the rebuild_index() run
    cleaner,     \* the DocumentCleaner.clean_documents() run
    lastCall,    \* the last call of chunk_document or of an Embedder method
    conv         \* the run of the script visualisation/conversion.py

vars == <<documents, indexFile, engine, ret, route, emb, rb, cleaner, lastCall, conv>>

(***************************************************************************)
(* Bounds of the model.                                                    *)
(***************************************************************************)
MaxRows == 3        \* rowids range over 1..MaxRows
MaxK == 2           \* top_k ranges over 1..MaxK
MaxTokens == 2      \* a routed query is built from at most MaxTokens tokens

(***************************************************************************)
(* Sequence helpers.                                                       *)
(***************************************************************************)
Range(s) == {s[i] : i \in DOMAIN s}

NoDuplicates(s) == \A i, j \in DOMAIN s : i /= j => s[i] /= s[j]

RECURSIVE SetToSeq(_)
(* The elements of a finite set in some fixed order: the iteration order   *)
(* of a Python set, which no caller here depends on.                       *)
SetToSeq(S) ==
    IF S = {} THEN <<>>
    ELSE LET x == CHOOSE y \in S : TRUE IN <<x>> \o SetToSeq(S \ {x})

(***************************************************************************)
(* category_mappings.py                                                    *)
(***************************************************************************)
(* CATEGORY_GROUPS: group name -> list of member category tags, in source order. *)
CATEGORY_GROUPS ==
       ("power_platform" :> <<
           "powerapps-overview", "power-fx", "maker", "connect-data",
           "transform-model", "create-reports", "collaborate-share", "alm",
           "developer", "guidance", "copilot", "flow-types", "regions-overview",
           "get-started-logic-flow", "run-scheduled-tasks", "desktop-flows",
           "process-mining-overview", "introduction", "release-updates",
           "capabilities"
       >>)
    @@ ("power_bi" :> <<
           "power-bi-overview", "service-admin-purchasing-power-bi-pro",
           "create-reports", "collaborate-share", "consumer", "desktop",
           "paginated-reports-report-builder-power-bi",
           "service-self-service-signup-for-power-bi",
           "service-admin-power-bi-security", "power-bi-embedded",
           "service-collaborate-power-bi-workspace",
           "trigger-flow-powerbi-report",
           "service-admin-administering-power-bi-in-your-organization",
           "report-server", "paginated-reports", "service-basic-concepts",
           "service-dashboards", "service-share-dashboards"
       >>)
    @@ ("power_automate" :> <<
           "flow-types", "get-started-logic-flow", "run-scheduled-tasks",
           "desktop-flows", "all-assigned-must-approve",
           "faqs-action-suggestions-power-automate-desktop",
           "process-mining-overview", "minit", "automation-center-overview",
           "approvals-app-api", "create-instant-flows", "modern-approvals",
           "workflow-processes", "create-flow-solution"
       >>)
    @@ ("azure_core" :> <<
           "azure", "fundamentals", "core", "app-service", "azure-functions",
           "virtual-machines", "storage", "azure-resource-manager", "automation",
           "governance", "networking", "security", "azure-monitor",
           "cost-management-billing", "azure-portal"
       >>)
    @@ ("azure_data" :> <<
           "databricks", "synapse-analytics", "data-factory", "cosmos-db",
           "sql-database", "azure-sql", "data-explorer", "data-share",
           "data-lake-analytics", "hdinsight", "azure-sql-edge",
           "analytics-platform-system", "big-data-cluster"
       >>)
    @@ ("azure_ai" :> <<
           "ai-services", "machine-learning", "ai", "cognitive-services",
           "ai-foundry", "ai-studio", "azure-video-indexer", "bot-service",
           "applied-ai-services"
       >>)
    @@ ("development" :> <<
           "csharp", "dotnet", "aspire", "orleans", "fsharp", "visual-basic",
           "python", "javascript", "java", "go", "devops", "azure-devops", "ide",
           "debugger", "test", "deployment", "version-control"
       >>)
    @@ ("database" :> <<
           "sql-server", "azure-sql", "database-engine", "analysis-services",
           "integration-services", "reporting-services", "ssms", "mysql",
           "postgresql", "mariadb", "cosmos-db", "synapse-analytics", "t-sql",
           "relational-databases"
       >>)
    @@ ("microsoft_365" :> <<
           "teams", "outlook-calendar-concept-overview",
           "outlook-mail-concept-overview", "sharepoint-concept-overview",
           "onedrive-concept-overview", "excel-concept-overview",
           "teams-concept-overview", "planner-concept-overview"
       >>)
    @@ ("security_compliance" :> <<
           "security", "compliance", "active-directory", "sentinel",
           "defender-for-cloud", "information-protection", "key-vault",
           "security-center", "gdpr-dsr-summary", "privacy-dsr-summary"
       >>)

(* QUERY_KEYWORDS: keyword -> group, one entry per dictionary item in source
   order; a keyword is written as the sequence of its characters. *)
QUERY_KEYWORDS == <<
    [keyword |-> <<"p", "o", "w", "e", "r", "f", "x">>, group |-> "power_platform"],  \* 'powerfx'
    [keyword |-> <<"p", "o", "w", "e", "r", " ", "f", "x">>, group |-> "power_platform"],  \* 'power fx'
    [keyword |-> <<"p", "o", "w", "e", "r", " ", "p", "l", "a", "t", "f", "o", "r", "m">>, group |-> "power_platform"],  \* 'power platform'
    [keyword |-> <<"p", "o", "w", "e", "r", "a", "p", "p", "s">>, group |-> "power_platform"],  \* 'powerapps'
    [keyword |-> <<"p", "o", "w", "e", "r", " ", "a", "p", "p", "s">>, group |-> "power_platform"],  \* 'power apps'
    [keyword |-> <<"c", "a", "n", "v", "a", "s", " ", "a", "p", "p">>, group |-> "power_platform"],  \* 'canvas app'
    [keyword |-> <<"m", "o", "d", "e", "l", " ", "d", "r", "i", "v", "e", "n">>, group |-> "power_platform"],  \* 'model driven'
    [keyword |-> <<"d", "a", "t", "a", "v", "e", "r", "s", "e">>, group |-> "power_platform"],  \* 'dataverse'
    [keyword |-> <<"r", "a", "n", "d", "b", "e", "t", "w", "e", "e", "n">>, group |-> "power_platform"],  \* 'randbetween'
    [keyword |-> <<"r", "a", "n", "d">>, group |-> "power_platform"],  \* 'rand'
    [keyword |-> <<"v", "l", "o", "o", "k", "u", "p">>, group |-> "power_platform"],  \* 'vlookup'
    [keyword |-> <<"i", "f", " ", "f", "u", "n", "c", "t", "i", "o", "n">>, group |-> "power_platform"],  \* 'if function'
    [keyword |-> <<"s", "u", "m", " ", "f", "u", "n", "c", "t", "i", "o", "n">>, group |-> "power_platform"],  \* 'sum function'
    [keyword |-> <<"c", "o", "u", "n", "t", "i", "f">>, group |-> "power_platform"],  \* 'countif'
    [keyword |-> <<"c", "o", "n", "c", "a", "t", "e", "n", "a", "t", "e">>, group |-> "power_platform"],  \* 'concatenate'
    [keyword |-> <<"p", "o", "w", "e", "r", " ", "a", "u", "t", "o", "m", "a", "t", "e">>, group |-> "power_automate"],  \* 'power automate'
    [keyword |-> <<"f", "l", "o", "w">>, group |-> "power_automate"],  \* 'flow'
    [keyword |-> <<"w", "o", "r", "k", "f", "l", "o", "w">>, group |-> "power_automate"],  \* 'workflow'
    [keyword |-> <<"a", "p", "p", "r", "o", "v", "a", "l">>, group |-> "power_automate"],  \* 'approval'
    [keyword |-> <<"a", "u", "t", "o", "m", "a", "t", "e">>, group |-> "power_automate"],  \* 'automate'
    [keyword |-> <<"t", "r", "i", "g", "g", "e", "r">>, group |-> "power_automate"],  \* 'trigger'
    [keyword |-> <<"a", "c", "t", "i", "o", "n">>, group |-> "power_automate"],  \* 'action'
    [keyword |-> <<"c", "o", "n", "n", "e", "c", "t", "o", "r">>, group |-> "power_automate"],  \* 'connector'
    [keyword |-> <<"d", "e", "s", "k", "t", "o", "p", " ", "f", "l", "o", "w">>, group |-> "power_automate"],  \* 'desktop flow'
    [keyword |-> <<"p", "r", "o", "c", "e", "s", "s", " ", "m", "i", "n", "i", "n", "g">>, group |-> "power_automate"],  \* 'process mining'
    [keyword |-> <<"r", "p", "a">>, group |-> "power_automate"],  \* 'rpa'
    [keyword |-> <<"p", "o", "w", "e", "r", " ", "b", "i">>, group |-> "power_bi"],  \* 'power bi'
    [keyword |-> <<"p", "o", "w", "e", "r", "b", "i">>, group |-> "power_bi"],  \* 'powerbi'
    [keyword |-> <<"d", "a", "s", "h", "b", "o", "a", "r", "d">>, group |-> "power_bi"],  \* 'dashboard'
    [keyword |-> <<"r", "e", "p", "o", "r", "t">>, group |-> "power_bi"],  \* 'report'
    [keyword |-> <<"v", "i", "s", "u", "a", "l", "i", "z", "a", "t", "i", "o", "n">>, group |-> "power_bi"],  \* 'visualization'
    [keyword |-> <<"d", "a", "t", "a", "s", "e", "t">>, group |-> "power_bi"],  \* 'dataset'
    [keyword |-> <<"d", "a", "x">>, group |-> "power_bi"],  \* 'dax'
    [keyword |-> <<"p", "b", "i", "x">>, group |-> "power_bi"],  \* 'pbix'
    [keyword |-> <<"a", "z", "u", "r", "e", " ", "d", "a", "t", "a", " ", "f", "a", "c", "t", "o", "r", "y">>, group |-> "azure_data"],  \* 'azure data factory'
    [keyword |-> <<"d", "a", "t", "a", " ", "f", "a", "c", "t", "o", "r", "y">>, group |-> "azure_data"],  \* 'data factory'
    [keyword |-> <<"a", "d", "f">>, group |-> "azure_data"],  \* 'adf'
    [keyword |-> <<"p", "i", "p", "e", "l", "i", "n", "e">>, group |-> "azure_data"],  \* 'pipeline'
    [keyword |-> <<"d", "a", "t", "a", "b", "r", "i", "c", "k", "s">>, group |-> "azure_data"],  \* 'databricks'
    [keyword |-> <<"s", "y", "n", "a", "p", "s", "e">>, group |-> "azure_data"],  \* 'synapse'
    [keyword |-> <<"c", "o", "s", "m", "o", "s", " ", "d", "b">>, group |-> "azure_data"],  \* 'cosmos db'
    [keyword |-> <<"s", "q", "l", " ", "d", "a", "t", "a", "b", "a", "s", "e">>, group |-> "database"],  \* 'sql database'
    [keyword |-> <<"a", "z", "u", "r", "e", " ", "s", "q", "l">>, group |-> "database"],  \* 'azure sql'
    [keyword |-> <<"a", "z", "u", "r", "e", " ", "a", "i">>, group |-> "azure_ai"],  \* 'azure ai'
    [keyword |-> <<"c", "o", "g", "n", "i", "t", "i", "v", "e", " ", "s", "e", "r", "v", "i", "c", "e", "s">>, group |-> "azure_ai"],  \* 'cognitive services'
    [keyword |-> <<"m", "a", "c", "h", "i", "n", "e", " ", "l", "e", "a", "r", "n", "i", "n", "g">>, group |-> "azure_ai"],  \* 'machine learning'
    [keyword |-> <<"b", "o", "t", " ", "f", "r", "a", "m", "e", "w", "o", "r", "k">>, group |-> "azure_ai"],  \* 'bot framework'
    [keyword |-> <<"l", "u", "i", "s">>, group |-> "azure_ai"],  \* 'luis'
    [keyword |-> <<"q", "n", "a", " ", "m", "a", "k", "e", "r">>, group |-> "azure_ai"],  \* 'qna maker'
    [keyword |-> <<"a", "z", "u", "r", "e", " ", "f", "u", "n", "c", "t", "i", "o", "n", "s">>, group |-> "azure_core"],  \* 'azure functions'
    [keyword |-> <<"a", "p", "p", " ", "s", "e", "r", "v", "i", "c", "e">>, group |-> "azure_core"],  \* 'app service'
    [keyword |-> <<"v", "i", "r", "t", "u", "a", "l", " ", "m", "a", "c", "h", "i", "n", "e">>, group |-> "azure_core"],  \* 'virtual machine'
    [keyword |-> <<"s", "t", "o", "r", "a", "g", "e", " ", "a", "c", "c", "o", "u", "n", "t">>, group |-> "azure_core"],  \* 'storage account'
    [keyword |-> <<"r", "e", "s", "o", "u", "r", "c", "e", " ", "g", "r", "o", "u", "p">>, group |-> "azure_core"],  \* 'resource group'
    [keyword |-> <<"s", "u", "b", "s", "c", "r", "i", "p", "t", "i", "o", "n">>, group |-> "azure_core"],  \* 'subscription'
    [keyword |-> <<"t", "e", "a", "m", "s">>, group |-> "microsoft_365"],  \* 'teams'
    [keyword |-> <<"s", "h", "a", "r", "e", "p", "o", "i", "n", "t">>, group |-> "microsoft_365"],  \* 'sharepoint'
    [keyword |-> <<"o", "n", "e", "d", "r", "i", "v", "e">>, group |-> "microsoft_365"],  \* 'onedrive'
    [keyword |-> <<"o", "u", "t", "l", "o", "o", "k">>, group |-> "microsoft_365"],  \* 'outlook'
    [keyword |-> <<"e", "x", "c", "e", "l">>, group |-> "microsoft_365"],  \* 'excel'
    [keyword |-> <<"w", "o", "r", "d">>, group |-> "microsoft_365"],  \* 'word'
    [keyword |-> <<"p", "o", "w", "e", "r", "p", "o", "i", "n", "t">>, group |-> "microsoft_365"],  \* 'powerpoint'
    [keyword |-> <<"c", "#">>, group |-> "development"],  \* 'c#'
    [keyword |-> <<"c", "s", "h", "a", "r", "p">>, group |-> "development"],  \* 'csharp'
    [keyword |-> <<".", "n", "e", "t">>, group |-> "development"],  \* '.net'
    [keyword |-> <<"d", "o", "t", "n", "e", "t">>, group |-> "development"],  \* 'dotnet'
    [keyword |-> <<"v", "i", "s", "u", "a", "l", " ", "s", "t", "u", "d", "i", "o">>, group |-> "development"],  \* 'visual studio'
    [keyword |-> <<"a", "z", "u", "r", "e", " ", "d", "e", "v", "o", "p", "s">>, group |-> "development"],  \* 'azure devops'
    [keyword |-> <<"g", "i", "t">>, group |-> "development"],  \* 'git'
    [keyword |-> <<"p", "y", "t", "h", "o", "n">>, group |-> "development"],  \* 'python'
    [keyword |-> <<"j", "a", "v", "a", "s", "c", "r", "i", "p", "t">>, group |-> "development"],  \* 'javascript'
    [keyword |-> <<"a", "z", "u", "r", "e", " ", "a", "d">>, group |-> "security_compliance"],  \* 'azure ad'
    [keyword |-> <<"a", "c", "t", "i", "v", "e", " ", "d", "i", "r", "e", "c", "t", "o", "r", "y">>, group |-> "security_compliance"],  \* 'active directory'
    [keyword |-> <<"a", "u", "t", "h", "e", "n", "t", "i", "c", "a", "t", "i", "o", "n">>, group |-> "security_compliance"],  \* 'authentication'
    [keyword |-> <<"a", "u", "t", "h", "o", "r", "i", "z", "a", "t", "i", "o", "n">>, group |-> "security_compliance"],  \* 'authorization'
    [keyword |-> <<"c", "o", "m", "p", "l", "i", "a", "n", "c", "e">>, group |-> "security_compliance"],  \* 'compliance'
    [keyword |-> <<"g", "d", "p", "r">>, group |-> "security_compliance"],  \* 'gdpr'
    [keyword |-> <<"s", "e", "c", "u", "r", "i", "t", "y">>, group |-> "security_compliance"]  \* 'security'
>>

GroupNames == DOMAIN CATEGORY_GROUPS

UpperCase == <<"A", "B", "C", "D", "E", "F", "G", "H", "I", "J", "K", "L", "M",
               "N", "O", "P", "Q", "R", "S", "T", "U", "V", "W", "X", "Y", "Z">>
LowerCase == <<"a", "b", "c", "d", "e", "f", "g", "h", "i", "j", "k", "l", "m",
               "n", "o", "p", "q", "r", "s", "t", "u", "v", "w", "x", "y", "z">>

(* str.lower() on one character. *)
LowerChar(c) ==
    IF \E i \in DOMAIN UpperCase : UpperCase[i] = c
    THEN LowerCase[CHOOSE i \in DOMAIN UpperCase : UpperCase[i] = c]
    ELSE c

(* query.lower() *)
Lower(s) == [i \in 1..Len(s) |-> LowerChar(s[i])]

(* A wrong containment test: the keyword must start the query. *)
IsPrefixOnly(keyword, s) ==
    Len(keyword) <= Len(s) /\ SubSeq(s, 1, Len(keyword)) = keyword

(* keyword in query_lower: Python's substring test. *)
IsSubstring(keyword, s) ==
    \E i \in 0..(Len(s) - Len(keyword)) : SubSeq(s, i + 1, i + Len(keyword)) = keyword

(* The first loop: the set of groups with a keyword contained in the query. *)
RelevantGroups(query_lower) ==
    {QUERY_KEYWORDS[i].group :
        i \in {n \in DOMAIN QUERY_KEYWORDS :
                  IsSubstring(QUERY_KEYWORDS[n].keyword, query_lower)}}

RECURSIVE ExtendAll(_)
(* The second loop: categories.extend(CATEGORY_GROUPS[group]) for each     *)
(* group of the list that is a key of CATEGORY_GROUPS.                     *)
ExtendAll(groups) ==
    IF groups = <<>> THEN <<>>
    ELSE (IF Head(groups) \in GroupNames THEN CATEGORY_GROUPS[Head(groups)] ELSE <<>>)
         \o ExtendAll(Tail(groups))

(* Returning the list with its duplicates. *)
ListOfSetKeepingDuplicates(s) == s

RECURSIVE ListOfSet(_)
(* list(set(categories)): each distinct element once. *)
ListOfSet(s) ==
    IF s = <<>> THEN <<>>
    ELSE LET rest == ListOfSet(Tail(s))
         IN IF Head(s) \in Range(rest) THEN rest ELSE <<Head(s)>> \o rest

get_categories_for_query(query) ==
    LET query_lower == Lower(query)
        relevant_groups == RelevantGroups(query_lower)
        categories == ExtendAll(SetToSeq(relevant_groups))
    IN ListOfSet(categories)
(* "How do I create a Power App?" *)
QPowerApp ==
    <<"H", "o", "w", " ", "d", "o", " ", "I", " ", "c", "r", "e", "a", "t",
    "e", " ", "a", " ", "P", "o", "w", "e", "r", " ", "A", "p", "p", "?">>

(* "asdkjh random gibberish" *)
QGibberish ==
    <<"a", "s", "d", "k", "j", "h", " ", "r", "a", "n", "d", "o", "m", " ",
    "g", "i", "b", "b", "e", "r", "i", "s", "h">>

(* "Power Apps flow" *)
QPowerAppsFlow ==
    <<"P", "o", "w", "e", "r", " ", "A", "p", "p", "s", " ", "f", "l", "o",
    "w">>

(* The words and phrases routed queries are built from. *)
Tokens == <<
    <<"P", "o", "w", "e", "r", " ", "A", "p", "p", "s">>,  \* "Power Apps"
    <<"f", "l", "o", "w">>,  \* "flow"
    <<"r", "a", "n", "d", "o", "m">>,  \* "random"
    <<"D", "A", "X">>,  \* "DAX"
    <<"t", "e", "a", "m", "s">>,  \* "teams"
    <<"A", "z", "u", "r", "e", " ", "S", "Q", "L">>,  \* "Azure SQL"
    <<"x", "y", "z">>  \* "xyz"
>>

RECURSIVE JoinTokens(_)
(* The tokens of ts (indices into Tokens) separated by single spaces. *)
JoinTokens(ts) ==
    IF ts = <<>> THEN <<>>
    ELSE IF Len(ts) = 1 THEN Tokens[ts[1]]
    ELSE Tokens[Head(ts)] \o <<" ">> \o JoinTokens(Tail(ts))

(* The queries handed to the router alone: "" and every phrase of at most *)
(* MaxTokens tokens.                                                       *)
RouteQueries ==
    {JoinTokens(ts) : ts \in UNION {[1..n -> DOMAIN Tokens] : n \in 0..MaxTokens}}

(* The queries handed to the retrieval engine. *)
Queries == {QPowerApp, QGibberish, QPowerAppsFlow}

(***************************************************************************)
(* State of the parts a specification does not exercise.                   *)
(***************************************************************************)
NoRoute == [status |-> "none", query |-> <<>>, categories |-> <<>>]
NoRet ==
    [status |-> "none", query |-> <<>>, top_k |-> 0, categories |-> <<>>,
     scoped_called |-> FALSE, scoped_docs |-> <<>>,
     sims |-> <<>>, general_called |-> FALSE, hits |-> <<>>, docs |-> <<>>]
NoEngine == [status |-> "not_started", index |-> <<>>, doc_count |-> 0]
NoEmb ==
    [pc |-> "load", model |-> FALSE, documents |-> <<>>, embeddings |-> <<>>,
     has_embeddings |-> FALSE, index |-> <<>>, has_index |-> FALSE, pending |-> <<>>]
NoRebuild == [pc |-> "idle", all_docs |-> <<>>, new_index |-> <<>>, pending |-> <<>>]
NoCleaner ==
    [pc |-> "idle", batch_size |-> 0, total_count |-> 0, offset |-> 0, processed |-> 0]
NoFile == [state |-> "absent", vecs |-> <<>>]
NoCall == [fn |-> "none", raised |-> FALSE, count |-> 0]
NoConv ==
    [pc |-> "idle", index |-> <<>>, n_vectors |-> 0, vectors |-> <<>>, nlist |-> 0,
     is_trained |-> FALSE, lists |-> <<>>, ntotal |-> 0, written |-> FALSE]

(***************************************************************************)
(* The router on its own.                                                  *)
(***************************************************************************)
InitRoute ==
    /\ \E q \in RouteQueries : route = [status |-> "asked", query |-> q, categories |-> <<>>]
    /\ documents = <<>>
    /\ indexFile = NoFile
    /\ engine = NoEngine
    /\ ret = NoRet
    /\ emb = NoEmb
    /\ rb = NoRebuild
    /\ cleaner = NoCleaner
    /\ lastCall = NoCall
    /\ conv = NoConv

RouteQuery ==
    /\ route.status = "asked"
    /\ route' = [route EXCEPT !.status = "returned",
                              !.categories = get_categories_for_query(route.query)]
    /\ UNCHANGED <<documents, indexFile, engine, ret, emb, rb, cleaner, lastCall, conv>>

NextRoute == RouteQuery

SpecRoute == InitRoute /\ [][NextRoute]_vars


(***************************************************************************)
(* Corpus rows, texts and vectors.                                         *)
(***************************************************************************)
Rowids == 1..MaxRows

(* The category fields the corpora of the model use: the three group names *)
(* of the end-to-end scenario and one member tag of power_platform.        *)
Categories == {"power_platform", "azure_core", "microsoft_365", "powerapps-overview"}

(* The text of a whole content column: row r at revision rev, w words. *)
WholeText(r, rev, w) == [row |-> r, rev |-> rev, lo |-> 0, hi |-> w, whole |-> TRUE]

(* The content column of row r as the table holds it now. *)
ContentOf(r) == WholeText(r, documents[r].rev, documents[r].words)

(* The rowids of the table in ascending order: the order of a SELECT       *)
(* without ORDER BY over the rowid table.                                  *)
RECURSIVE AscendingSeq(_)
AscendingSeq(S) ==
    IF S = {} THEN <<>>
    ELSE LET m == CHOOSE x \in S : \A y \in S : x <= y
         IN <<m>> \o AscendingSeq(S \ {m})

TableRowids == AscendingSeq(DOMAIN documents)

(***************************************************************************)
(* model.py: startup                                                       *)
(***************************************************************************)
(* Lines 19-35: faiss.read_index, the count of the rows, the embedding model.    *)
(* read_index raises on a missing or short file; nothing compares the      *)
(* index with doc_count or with the model's dimension.                     *)
Startup ==
    /\ engine.status = "not_started"
    /\ engine' = IF indexFile.state = "complete"
                 THEN [status |-> "serving", index |-> indexFile.vecs,
                       doc_count |-> Cardinality(DOMAIN documents)]
                 ELSE [engine EXCEPT !.status = "failed"]
    /\ UNCHANGED <<documents, indexFile, ret, route, emb, rb, cleaner, lastCall, conv>>

(***************************************************************************)
(* The vector index as the engine uses it.  sims[p + 1] is the inner       *)
(* product of the query vector with the vector at position p.              *)
(***************************************************************************)
SimVals == {39, 40, 41}

ntotal == Len(engine.index)

(* index.reconstruct(p): defined for 0 <= p < ntotal, an exception otherwise. *)
CanReconstruct(p) == p >= 0 /\ p < ntotal

(* The similarity and position faiss pads a result with when fewer than k  *)
(* vectors exist.                                                          *)
NoHit == [sim |-> -100 - 1, idx |-> -1]

RECURSIVE BestFirst(_, _)
(* The positions of P by descending similarity, ties by ascending position. *)
BestFirst(P, sims) ==
    IF P = {} THEN <<>>
    ELSE LET b == CHOOSE p \in P : \A q \in P :
                     \/ sims[p + 1] > sims[q + 1]
                     \/ (sims[p + 1] = sims[q + 1] /\ p <= q)
         IN <<[sim |-> sims[b + 1], idx |-> b]>> \o BestFirst(P \ {b}, sims)

(* index.search(query_embedding, k): k (similarity, position) pairs. *)
IndexSearch(sims, k) ==
    LET found == BestFirst(0..(ntotal - 1), sims)
    IN [j \in 1..k |-> IF j <= Len(found) THEN found[j] ELSE NoHit]

(***************************************************************************)
(* model.py: search_by_category                                            *)
(***************************************************************************)
(* Line 92: SELECT rowid-1 as faiss_idx: the position scoped search reads *)
(* for the row of rowid r.                                                 *)
ScopedPositionOf(r) == r - 1

(* Line 147: WHERE rowid = idx + 1: the row general search reads for       *)
(* position p.                                                             *)
GeneralRowOf(p) == p + 1

RECURSIVE CategoryDocs(_, _)
(* SELECT rowid-1 as faiss_idx, * FROM documents WHERE category IN (...):  *)
(* the rows of the list rows whose category is one of cats.                *)
CategoryDocs(rows, cats) ==
    IF rows = <<>> THEN <<>>
    ELSE (IF documents[Head(rows)].category \in cats
          THEN <<[faiss_idx |-> ScopedPositionOf(Head(rows)), row |-> Head(rows)]>>
          ELSE <<>>)
         \o CategoryDocs(Tail(rows), cats)

(* A scoring loop with the try around the loop and not inside it: the     *)
(* first vector that cannot be reconstructed ends the scoring with         *)
(* nothing.                                                                *)
DocSimilaritiesAllOrNothing(category_docs, sims) ==
    IF \E n \in DOMAIN category_docs : ~CanReconstruct(category_docs[n].faiss_idx)
    THEN <<>>
    ELSE [n \in DOMAIN category_docs |->
             [similarity_score |-> sims[category_docs[n].faiss_idx + 1],
              row |-> category_docs[n].row]]

RECURSIVE DocSimilarities(_, _)
(* Lines 108-125: one entry per candidate whose vector can be              *)
(* reconstructed; the except clause skips the others.                      *)
DocSimilarities(category_docs, sims) ==
    IF category_docs = <<>> THEN <<>>
    ELSE LET doc == Head(category_docs)
         IN (IF CanReconstruct(doc.faiss_idx)
             THEN <<[similarity_score |-> sims[doc.faiss_idx + 1], row |-> doc.row]>>
             ELSE <<>>)
            \o DocSimilarities(Tail(category_docs), sims)

(* A result list left in the order of the table. *)
TableOrder(s) == s

RECURSIVE SortDescending(_)
(* list.sort(key=similarity_score, reverse=True): stable, so entries of    *)
(* equal score keep their order.                                           *)
SortDescending(s) ==
    IF s = <<>> THEN <<>>
    ELSE LET i == CHOOSE n \in DOMAIN s :
                     /\ \A m \in DOMAIN s : s[n].similarity_score >= s[m].similarity_score
                     /\ \A m \in 1..(n - 1) : s[m].similarity_score < s[n].similarity_score
         IN <<s[i]>> \o SortDescending(SubSeq(s, 1, i - 1) \o SubSeq(s, i + 1, Len(s)))

(* s[:n] *)
Take(s, n) == SubSeq(s, 1, IF n < Len(s) THEN n ELSE Len(s))

search_by_category(categories, top_k, sims) ==
    IF categories = <<>> THEN <<>>
    ELSE LET category_docs == CategoryDocs(TableRowids, Range(categories))
         IN IF category_docs = <<>> THEN <<>>
            ELSE Take(SortDescending(DocSimilarities(category_docs, sims)), top_k)

(***************************************************************************)
(* model.py: search_general                                                *)
(*                                                                         *)
(* The loop header unpacks enumerate(zip(similarities[0], indices[0])), so *)
(* the values its body works on are Python values of two types.            *)
(***************************************************************************)
PyInt(n) == [type |-> "int", int |-> n, items |-> <<>>]
PyTuple(t) == [type |-> "tuple", int |-> 0, items |-> t]

(* a == b: values of different types are unequal. *)
PyEq(a, b) == a.type = b.type /\ a.int = b.int /\ a.items = b.items

(* a + b is defined for two ints and for two tuples; int + tuple and       *)
(* tuple + int raise TypeError.                                            *)
PyAddDefined(a, b) == a.type = b.type
PyAdd(a, b) ==
    IF a.type = "int" THEN PyInt(a.int + b.int) ELSE PyTuple(a.items \o b.items)

(* Line 143: for (similarity, idx) in enumerate(zip(...)): at the j-th     *)
(* item (from 0) enumerate yields (j, (similarities[0][j], indices[0][j])), *)
(* so similarity is bound to j and idx to the pair.                        *)
LoopSimilarity(j, hit) == PyInt(j)
LoopIdx(j, hit) == PyTuple(<<hit.sim, hit.idx>>)

RECURSIVE GeneralLoop(_, _, _)
(* Lines 143-156 from the j-th item (from 0) on, with retrieved_docs so    *)
(* far; the result says whether the loop raised.                           *)
GeneralLoop(hits, j, retrieved_docs) ==
    IF j >= Len(hits) THEN [raised |-> FALSE, docs |-> retrieved_docs]
    ELSE LET similarity == LoopSimilarity(j, hits[j + 1])
             idx == LoopIdx(j, hits[j + 1])
         IN IF PyEq(idx, PyInt(-1)) THEN GeneralLoop(hits, j + 1, retrieved_docs)
            ELSE IF ~PyAddDefined(idx, PyInt(1))
                 THEN [raised |-> TRUE, docs |-> retrieved_docs]
            ELSE LET rowid == PyAdd(idx, PyInt(1))
                 IN IF rowid.type = "int" /\ rowid.int \in DOMAIN documents
                    THEN GeneralLoop(hits, j + 1,
                             Append(retrieved_docs,
                                    [similarity_score |-> similarity.int,
                                     row |-> rowid.int]))
                    ELSE GeneralLoop(hits, j + 1, retrieved_docs)

search_general(top_k, sims) == GeneralLoop(IndexSearch(sims, top_k), 0, <<>>)

(***************************************************************************)
(* model.py: retrieve_documents                                            *)
(***************************************************************************)
(* The confidence threshold of line 73, in hundredths. *)
Threshold == 40

(* get_categories_for_query on the queries of the engine, computed once. *)
Routed == [q \in Queries |-> get_categories_for_query(q)]

(* Line 73: docs and len(docs) > 0 and docs[0]['similarity_score'] > 0.4 *)
ScopedAccepted(docs) ==
    docs /= <<>> /\ Len(docs) > 0 /\ docs[1].similarity_score > Threshold

retrieve_documents(query, top_k, sims) ==
    LET target_categories == Routed[query]
        scoped == target_categories /= <<>>
        docs == IF scoped THEN search_by_category(target_categories, top_k, sims)
                ELSE <<>>
        call == [status |-> "returned", query |-> query, top_k |-> top_k,
                 sims |-> sims, categories |-> target_categories,
                 scoped_called |-> scoped, scoped_docs |-> docs,
                 general_called |-> FALSE, hits |-> <<>>, docs |-> docs]
    IN IF scoped /\ ScopedAccepted(docs) THEN call
       ELSE LET general == search_general(top_k, sims)
            IN [call EXCEPT !.general_called = TRUE,
                            !.hits = IndexSearch(sims, top_k),
                            !.status = IF general.raised THEN "raised" ELSE "returned",
                            !.docs = general.docs]

(* A retrieval that takes the vectors it was given as hits out of the      *)
(* loaded index.                                                           *)
RetrieveConsumingHits ==
    /\ engine.status = "serving"
    /\ ret.status = "none"
    /\ \E query \in Queries, top_k \in 1..MaxK, sims \in [1..ntotal -> SimVals] :
          /\ ret' = retrieve_documents(query, top_k, sims)
          /\ engine' = [engine EXCEPT
                           !.index = SubSeq(@, 1, Len(@) - Len(ret'.hits))]
    /\ UNCHANGED <<documents, indexFile, route, emb, rb, cleaner, lastCall, conv>>

(* One call of retrieve_documents on the serving engine.  A call changes   *)
(* ret alone, so the call the model observes starts from every state a     *)
(* later call could start from.                                            *)
Retrieve ==
    /\ engine.status = "serving"
    /\ ret.status = "none"
    /\ \E query \in Queries, top_k \in 1..MaxK, sims \in [1..ntotal -> SimVals] :
          ret' = retrieve_documents(query, top_k, sims)
    /\ UNCHANGED <<documents, indexFile, engine, route, emb, rb, cleaner, lastCall, conv>>

(***************************************************************************)
(* The retrieval engine over a corpus and an index file built earlier.     *)
(***************************************************************************)
Corpora ==
    UNION {[S -> [category : Categories, words : {100}, rev : {0}]] : S \in SUBSET Rowids}

(* The index file rebuild_index wrote when the table held rows 1..n. *)
RebuiltFrom(n) ==
    [state |-> "complete", vecs |-> [i \in 1..n |-> WholeText(i, 0, 100)]]

Init ==
    /\ documents \in Corpora
    /\ indexFile \in {NoFile} \cup {RebuiltFrom(n) : n \in 1..MaxRows}
    /\ engine = NoEngine
    /\ ret = NoRet
    /\ route = NoRoute
    /\ emb = NoEmb
    /\ rb = NoRebuild
    /\ cleaner = NoCleaner
    /\ lastCall = NoCall
    /\ conv = NoConv

Next == Startup \/ Retrieve

Spec == Init /\ [][Next]_vars

(***************************************************************************)
(* faiss.write_index(index, path): the file is opened for writing, which   *)
(* empties it, the header and the vectors are written in order, and the    *)
(* file is closed.  Until then the file holds a prefix and read_index      *)
(* raises on it.                                                           *)
(***************************************************************************)
WriteOpen == [state |-> "partial", vecs |-> <<>>]

(* One more write of a run with the vectors pending still to write; with   *)
(* none left the file is closed.                                           *)
WriteStep(file, pending) ==
    IF pending = <<>> THEN [file EXCEPT !.state = "complete"]
    ELSE [file EXCEPT !.vecs = Append(@, Head(pending))]

(***************************************************************************)
(* generate_embeddings.py: Embedder                                        *)
(***************************************************************************)
(* main(): MIN_WORD_COUNT, and the default max_words of chunk_document. *)
MIN_WORD_COUNT == 50
max_words == 500

(* The word counts of the rows of the build corpora: below MIN_WORD_COUNT, *)
(* within one chunk, and of two and of three chunks.                       *)
WordCounts == {40, 100, 600, 1200}

(* len(content.split()) of a text. *)
WordCount(text) == text.hi - text.lo

(* A loop that leaves out the last window when it is not a full one. *)
RECURSIVE PyRangeFullStepsOnly(_, _, _)
PyRangeFullStepsOnly(start, stop, step) ==
    IF start + step > stop THEN <<>>
    ELSE <<start>> \o PyRangeFullStepsOnly(start + step, stop, step)

(* range(start, stop, step) of Python for a positive step. *)
RECURSIVE PyRange(_, _, _)
PyRange(start, stop, step) ==
    IF start >= stop THEN <<>>
    ELSE <<start>> \o PyRange(start + step, stop, step)

(* words[i:j] of Python for 0 <= i <= j: the end is clamped to the length. *)
PySlice(words, i, j) ==
    SubSeq(words, i + 1, IF j < Len(words) THEN j ELSE Len(words))

(* chunk_document(content): the content itself when it has at most         *)
(* max_words words, else the consecutive windows of max_words words, each  *)
(* joined with single spaces.  The content is a text of the corpus, known  *)
(* by the words it spans.                                                  *)
chunk_document(content) ==
    IF WordCount(content) <= max_words THEN <<content>>
    ELSE LET starts == PyRange(0, WordCount(content), max_words)
         IN [n \in 1..Len(starts) |->
                [content EXCEPT
                    !.lo = content.lo + starts[n],
                    !.hi = IF content.lo + starts[n] + max_words < content.hi
                           THEN content.lo + starts[n] + max_words
                           ELSE content.hi,
                    !.whole = FALSE]]

(***************************************************************************)
(* chunk_document on strings.  A string is a tuple of characters, a word   *)
(* is a non-empty tuple of letters.                                        *)
(***************************************************************************)
MaxChars == 14        \* the contents have up to MaxChars characters
MaxChunkWords == 2    \* the max_words argument ranges over 1..MaxChunkWords

Space == " "
Letters == {"a"}

(* str.split() with no argument: the maximal runs of non-whitespace, in    *)
(* order; leading, trailing and repeated whitespace yields no empty word.  *)
RECURSIVE SplitFrom(_, _, _)
SplitFrom(s, word, words) ==
    IF s = <<>> THEN (IF word = <<>> THEN words ELSE Append(words, word))
    ELSE IF Head(s) = Space
         THEN SplitFrom(Tail(s), <<>>,
                        IF word = <<>> THEN words ELSE Append(words, word))
         ELSE SplitFrom(Tail(s), Append(word, Head(s)), words)

Split(s) == SplitFrom(s, <<>>, <<>>)

(* " ".join(words) *)
RECURSIVE Join(_)
Join(words) ==
    IF words = <<>> THEN <<>>
    ELSE IF Len(words) = 1 THEN Head(words)
         ELSE Head(words) \o <<Space>> \o Join(Tail(words))

(* A chunker without the early return of lines 92-93: every content goes   *)
(* through the loop and is joined again.                                   *)
chunk_document_always_joining(content, limit) ==
    LET words == Split(content)
        starts == PyRange(0, Len(words), limit)
    IN [n \in 1..Len(starts) |-> Join(PySlice(words, starts[n], starts[n] + limit))]

(* chunk_document(content, max_words), lines 89-100, on a string. *)
chunk_document_text(content, limit) ==
    LET words == Split(content)
    IN IF Len(words) <= limit THEN <<content>>
       ELSE LET starts == PyRange(0, Len(words), limit)
            IN [n \in 1..Len(starts) |->
                   Join(PySlice(words, starts[n], starts[n] + limit))]

(* The strings of up to n characters. *)
Strings(n) == UNION {[1..m -> Letters \cup {Space}] : m \in 0..n}

NoChunkCall(content, limit) ==
    [fn |-> "chunk_document", raised |-> FALSE, returned |-> FALSE,
     content |-> content, max_words |-> limit, chunks |-> <<>>]

(* One call of chunk_document, on the arguments the initial state chose. *)
ChunkCall ==
    /\ lastCall.fn = "chunk_document"
    /\ ~lastCall.returned
    /\ lastCall' = [lastCall EXCEPT
                       !.returned = TRUE,
                       !.chunks = chunk_document_text(lastCall.content,
                                                      lastCall.max_words)]
    /\ UNCHANGED <<documents, indexFile, engine, ret, route, emb, rb, cleaner, conv>>

InitChunk ==
    /\ documents = <<>>
    /\ indexFile = NoFile
    /\ engine = NoEngine
    /\ ret = NoRet
    /\ route = NoRoute
    /\ emb = NoEmb
    /\ rb = NoRebuild
    /\ cleaner = NoCleaner
    /\ lastCall \in {NoChunkCall(content, limit) :
                        content \in Strings(MaxChars), limit \in 1..MaxChunkWords}
    /\ conv = NoConv

NextChunk == ChunkCall

SpecChunk == InitChunk /\ [][NextChunk]_vars

RECURSIVE LoadedDocuments(_)
(* load_documents: the rows with non-empty content and word_count >=       *)
(* min_word_count, in table order.  The id column is the rowid.            *)
LoadedDocuments(rows) ==
    IF rows = <<>> THEN <<>>
    ELSE LET r == Head(rows)
         IN (IF documents[r].words > 0 /\ documents[r].words >= MIN_WORD_COUNT
             THEN <<[id |-> r, content |-> ContentOf(r),
                     category |-> documents[r].category,
                     word_count |-> documents[r].words]>>
             ELSE <<>>)
            \o LoadedDocuments(Tail(rows))

(* Chunk records numbered from 1, as enumerate(chunks, 1) would number     *)
(* them.                                                                   *)
ChunkDocsCountingFromOne(doc) ==
    LET chunks == chunk_document(doc.content)
    IN [i \in 1..Len(chunks) |->
           [id |-> [of |-> doc.id, chunk |-> i], original_id |-> doc.id,
            content |-> chunks[i], category |-> doc.category,
            chunk_index |-> i, total_chunks |-> Len(chunks)]]

(* The chunk records process_documents makes of one document. *)
ChunkDocs(doc) ==
    LET chunks == chunk_document(doc.content)
    IN [i \in 1..Len(chunks) |->
           [id |-> [of |-> doc.id, chunk |-> i - 1], original_id |-> doc.id,
            content |-> chunks[i], category |-> doc.category,
            chunk_index |-> i - 1, total_chunks |-> Len(chunks)]]

RECURSIVE ProcessedDocs(_)
(* process_documents: the chunk records of every document, in order. *)
ProcessedDocs(docs) ==
    IF docs = <<>> THEN <<>>
    ELSE ChunkDocs(Head(docs)) \o ProcessedDocs(Tail(docs))

(* model.encode(texts): one vector per text, identified by the text. *)
Encode(docs) == [i \in 1..Len(docs) |-> docs[i].content]

(* generate_embeddings with no documents, seen as a method that works on   *)
(* whatever list it finds.                                                 *)
GenerateWithoutGuard(self) ==
    [raised |-> FALSE,
     self |-> [self EXCEPT !.model = TRUE,
                           !.embeddings = Encode(self.documents),
                           !.has_embeddings = TRUE]]

(* load_documents, lines 26-87: self.documents is the list of the rows     *)
(* read.                                                                   *)
load_documents(self) ==
    [raised |-> FALSE,
     self |-> [self EXCEPT !.documents = LoadedDocuments(TableRowids)]]

(* process_documents, lines 102-123. *)
process_documents(self) ==
    [raised |-> FALSE,
     self |-> [self EXCEPT !.documents = ProcessedDocs(self.documents)]]

(* generate_embeddings, lines 125-146: the model is loaded when it is not  *)
(* yet; with no documents ValueError is raised; else self.embeddings is    *)
(* the encoding of the contents.                                           *)
generate_embeddings(self) ==
    LET with_model == [self EXCEPT !.model = TRUE]
    IN IF with_model.documents = <<>>
       THEN [raised |-> TRUE, self |-> with_model]
       ELSE [raised |-> FALSE,
             self |-> [with_model EXCEPT !.embeddings = Encode(with_model.documents),
                                         !.has_embeddings = TRUE]]

(* create_index, lines 148-162: ValueError with no embeddings; else the    *)
(* normalised embeddings are added to a flat index in order.               *)
create_index(self) ==
    IF ~self.has_embeddings
    THEN [raised |-> TRUE, self |-> self]
    ELSE [raised |-> FALSE,
          self |-> [self EXCEPT !.index = self.embeddings, !.has_index = TRUE]]

(* save_all, lines 164-169: ValueError with no index. *)
SaveAllRaises(self) == ~self.has_index

(* main(), line 205. *)
MainLoadDocuments ==
    /\ emb.pc = "load"
    /\ emb' = [load_documents(emb).self EXCEPT !.pc = "process"]
    /\ UNCHANGED <<documents, indexFile, engine, ret, route, rb, cleaner, lastCall, conv>>

(* main(), line 206. *)
MainProcessDocuments ==
    /\ emb.pc = "process"
    /\ emb' = [process_documents(emb).self EXCEPT !.pc = "embed"]
    /\ UNCHANGED <<documents, indexFile, engine, ret, route, rb, cleaner, lastCall, conv>>

(* main(), line 207: generate_embeddings raises ValueError with no         *)
(* documents; main logs the error and raises it again.                     *)
MainGenerateEmbeddings ==
    /\ emb.pc = "embed"
    /\ LET call == generate_embeddings(emb)
       IN emb' = [call.self EXCEPT !.pc = IF call.raised THEN "failed" ELSE "index"]
    /\ UNCHANGED <<documents, indexFile, engine, ret, route, rb, cleaner, lastCall, conv>>

(* main(), line 208. *)
MainCreateIndex ==
    /\ emb.pc = "index"
    /\ LET call == create_index(emb)
       IN emb' = [call.self EXCEPT !.pc = IF call.raised THEN "failed" ELSE "save"]
    /\ UNCHANGED <<documents, indexFile, engine, ret, route, rb, cleaner, lastCall, conv>>

(* main(), line 209: save_all raises ValueError with no index; else        *)
(* write_index opens microsoft_learn_index.faiss.                          *)
MainSaveAll ==
    /\ emb.pc = "save"
    /\ IF SaveAllRaises(emb)
       THEN emb' = [emb EXCEPT !.pc = "failed"] /\ UNCHANGED indexFile
       ELSE /\ emb' = [emb EXCEPT !.pending = emb.index, !.pc = "writing"]
            /\ indexFile' = WriteOpen
    /\ UNCHANGED <<documents, engine, ret, route, rb, cleaner, lastCall, conv>>

(* write_index of save_all going on, up to closing the file. *)
MainWriteIndex ==
    /\ emb.pc = "writing"
    /\ indexFile' = WriteStep(indexFile, emb.pending)
    /\ emb' = IF emb.pending = <<>> THEN [emb EXCEPT !.pc = "done"]
              ELSE [emb EXCEPT !.pending = Tail(@)]
    /\ UNCHANGED <<documents, engine, ret, route, rb, cleaner, lastCall, conv>>

(* The corpora the Embedder is run on: a freshly scraped table of rows     *)
(* 1..n, each of any of the word counts.                                   *)
BuildCorpora ==
    UNION {[1..n -> [category : {"powerapps-overview"}, words : WordCounts, rev : {0}]] :
              n \in 0..MaxRows}

InitEmbed ==
    /\ documents \in BuildCorpora
    /\ indexFile = NoFile
    /\ engine = NoEngine
    /\ ret = NoRet
    /\ route = NoRoute
    /\ emb = NoEmb
    /\ rb = NoRebuild
    /\ cleaner = NoCleaner
    /\ lastCall = NoCall
    /\ conv = NoConv

NextEmbed ==
    \/ MainLoadDocuments
    \/ MainProcessDocuments
    \/ MainGenerateEmbeddings
    \/ MainCreateIndex
    \/ MainSaveAll
    \/ MainWriteIndex
    \/ Startup

SpecEmbed == InitEmbed /\ [][NextEmbed]_vars

(***************************************************************************)
(* The methods of one Embedder called in any order, as a caller other than *)
(* main() may call them.                                                   *)
(***************************************************************************)
MaxCalls == 5         \* the calls made on the Embedder

(* faiss.write_index from its opening of the file to its close. *)
RECURSIVE WriteRest(_, _)
WriteRest(file, pending) ==
    IF pending = <<>> THEN WriteStep(file, pending)
    ELSE WriteRest(WriteStep(file, pending), Tail(pending))

write_index(index) == WriteRest(WriteOpen, index)

(* The record of the call of method fn that raised or not. *)
CallOf(fn, raised) == [fn |-> fn, raised |-> raised, count |-> lastCall.count + 1]

CallLoadDocuments ==
    /\ lastCall.count < MaxCalls
    /\ emb' = load_documents(emb).self
    /\ lastCall' = CallOf("load_documents", FALSE)
    /\ UNCHANGED <<documents, indexFile, engine, ret, route, rb, cleaner, conv>>

CallProcessDocuments ==
    /\ lastCall.count < MaxCalls
    /\ emb' = process_documents(emb).self
    /\ lastCall' = CallOf("process_documents", FALSE)
    /\ UNCHANGED <<documents, indexFile, engine, ret, route, rb, cleaner, conv>>

CallGenerateEmbeddings ==
    /\ lastCall.count < MaxCalls
    /\ emb' = generate_embeddings(emb).self
    /\ lastCall' = CallOf("generate_embeddings", generate_embeddings(emb).raised)
    /\ UNCHANGED <<documents, indexFile, engine, ret, route, rb, cleaner, conv>>

CallCreateIndex ==
    /\ lastCall.count < MaxCalls
    /\ emb' = create_index(emb).self
    /\ lastCall' = CallOf("create_index", create_index(emb).raised)
    /\ UNCHANGED <<documents, indexFile, engine, ret, route, rb, cleaner, conv>>

(* save_all, lines 164-173: the check of the index, then write_index. *)
CallSaveAll ==
    /\ lastCall.count < MaxCalls
    /\ indexFile' = IF SaveAllRaises(emb) THEN indexFile ELSE write_index(emb.index)
    /\ lastCall' = CallOf("save_all", SaveAllRaises(emb))
    /\ UNCHANGED <<documents, engine, ret, route, emb, rb, cleaner, conv>>

InitCalls ==
    /\ documents \in BuildCorpora
    /\ indexFile = NoFile
    /\ engine = NoEngine
    /\ ret = NoRet
    /\ route = NoRoute
    /\ emb = NoEmb
    /\ rb = NoRebuild
    /\ cleaner = NoCleaner
    /\ lastCall = NoCall
    /\ conv = NoConv

NextCalls ==
    \/ CallLoadDocuments
    \/ CallProcessDocuments
    \/ CallGenerateEmbeddings
    \/ CallCreateIndex
    \/ CallSaveAll

SpecCalls == InitCalls /\ [][NextCalls]_vars

(***************************************************************************)
(* data/clean.py: DocumentCleaner.clean_documents                          *)
(***************************************************************************)
MaxBatch == 2       \* batch_size ranges over 1..MaxBatch

(* Lines 185-200: the row count is read once and the offset starts at 0. *)
CleanStart ==
    /\ cleaner.pc = "idle"
    /\ \E batch_size \in 1..MaxBatch :
          cleaner' = [pc |-> IF Cardinality(DOMAIN documents) = 0
                             THEN "done" ELSE "running",
                      batch_size |-> batch_size,
                      total_count |-> Cardinality(DOMAIN documents),
                      offset |-> 0, processed |-> 0]
    /\ UNCHANGED <<documents, indexFile, engine, ret, route, emb, rb, lastCall, conv>>

(* SELECT ... FROM documents LIMIT limit OFFSET offset, on the table as it *)
(* is now.                                                                 *)
LimitOffset(limit, offset) ==
    SubSeq(TableRowids, offset + 1,
           IF offset + limit < Len(TableRowids) THEN offset + limit
           ELSE Len(TableRowids))

(* What the loop body does with one fetched document: the content decides, *)
(* so it is any of: removed (lines 218-223), rewritten with its new word   *)
(* count (lines 226-238), left as it is (line 240).                        *)
CleanOutcomes(r) ==
    {[kind |-> "removed", words |-> 0], [kind |-> "cleaned", words |-> documents[r].words]}
    \cup {[kind |-> "improved", words |-> w] :
             w \in {v \in WordCounts : v <= documents[r].words}}

(* The table after the batch with the outcomes out. *)
CleanedTable(out) ==
    [r \in {x \in DOMAIN documents : x \notin DOMAIN out \/ out[x].kind /= "removed"} |->
        IF r \in DOMAIN out /\ out[r].kind = "improved"
        THEN [documents[r] EXCEPT !.words = out[r].words, !.rev = 1]
        ELSE documents[r]]

(* Lines 201-248: one pass of the while loop: a batch is fetched, each of  *)
(* its documents is counted and handled, the batch is committed and the    *)
(* offset advances by batch_size; the loop ends with offset >= total_count. *)
CleanBatch ==
    /\ cleaner.pc = "running"
    /\ cleaner.offset < cleaner.total_count
    /\ LET fetched == LimitOffset(cleaner.batch_size, cleaner.offset)
           offset == cleaner.offset + cleaner.batch_size
       IN \E out \in [Range(fetched) -> UNION {CleanOutcomes(r) : r \in Range(fetched)}] :
             /\ \A r \in Range(fetched) : out[r] \in CleanOutcomes(r)
             /\ documents' = CleanedTable(out)
             /\ cleaner' = [cleaner EXCEPT
                               !.processed = @ + Len(fetched),
                               !.offset = offset,
                               !.pc = IF offset < cleaner.total_count
                                      THEN "running" ELSE "done"]
    /\ UNCHANGED <<indexFile, engine, ret, route, emb, rb, lastCall, conv>>

(***************************************************************************)
(* rebuild_index.py                                                        *)
(***************************************************************************)
(* Lines 16-42: every row's content is read in table order and encoded,    *)
(* and the normalised vectors are added to a new flat index in that order. *)
(* With no rows, embeddings_array.shape[1] raises IndexError.              *)
RebuildEncode ==
    /\ rb.pc = "idle"
    /\ LET all_docs == [i \in 1..Len(TableRowids) |-> ContentOf(TableRowids[i])]
       IN rb' = IF all_docs = <<>>
                THEN [rb EXCEPT !.pc = "failed"]
                ELSE [rb EXCEPT !.all_docs = all_docs, !.new_index = all_docs,
                                !.pc = "write"]
    /\ UNCHANGED <<documents, indexFile, engine, ret, route, emb, cleaner, lastCall, conv>>

(* Line 44: write_index opens index_path, the path the engine reads. *)
RebuildOpenIndexFile ==
    /\ rb.pc = "write"
    /\ indexFile' = WriteOpen
    /\ rb' = [rb EXCEPT !.pending = rb.new_index, !.pc = "writing"]
    /\ UNCHANGED <<documents, engine, ret, route, emb, cleaner, lastCall, conv>>

(* Line 44 going on, up to closing the file. *)
RebuildWriteIndex ==
    /\ rb.pc = "writing"
    /\ indexFile' = WriteStep(indexFile, rb.pending)
    /\ rb' = IF rb.pending = <<>> THEN [rb EXCEPT !.pc = "done"]
             ELSE [rb EXCEPT !.pending = Tail(@)]
    /\ UNCHANGED <<documents, engine, ret, route, emb, cleaner, lastCall, conv>>

(* A freshly scraped table of n rows and the index built from it; then the *)
(* cleaner, a rebuild and the engine's startup run, in any interleaving.   *)
InitRebuild ==
    /\ \E n \in 1..MaxRows :
          /\ documents = [r \in 1..n |->
                             [category |-> "powerapps-overview", words |-> 100, rev |-> 0]]
          /\ indexFile = RebuiltFrom(n)
    /\ engine = NoEngine
    /\ ret = NoRet
    /\ route = NoRoute
    /\ emb = NoEmb
    /\ rb = NoRebuild
    /\ cleaner = NoCleaner
    /\ lastCall = NoCall
    /\ conv = NoConv

NextRebuild ==
    \/ CleanStart
    \/ CleanBatch
    \/ RebuildEncode
    \/ RebuildOpenIndexFile
    \/ RebuildWriteIndex
    \/ Startup

SpecRebuild == InitRebuild /\ [][NextRebuild]_vars

(***************************************************************************)
(* visualisation/conversion.py                                             *)
(***************************************************************************)
MaxVectors == 11      \* the small index files hold 0..MaxVectors vectors
LargeIndex == 1005    \* the size of the one large index file
FixedCap == 100       \* line 15: min(100, ...)

(* Line 5: faiss.read_index of the index file; it raises on a file that is *)
(* missing or not complete.                                                *)
ConvReadIndex ==
    /\ conv.pc = "idle"
    /\ conv' = IF indexFile.state /= "complete"
               THEN [conv EXCEPT !.pc = "failed"]
               ELSE [conv EXCEPT !.index = indexFile.vecs,
                                 !.n_vectors = Len(indexFile.vecs),
                                 !.pc = "extract"]
    /\ UNCHANGED <<documents, indexFile, engine, ret, route, emb, rb, cleaner, lastCall>>

(* Lines 12-13: one turn of the loop, vectors[i] = index.reconstruct(i). *)
ConvReconstruct ==
    /\ conv.pc = "extract"
    /\ Len(conv.vectors) < conv.n_vectors
    /\ conv' = [conv EXCEPT !.vectors = Append(@, conv.index[Len(@) + 1])]
    /\ UNCHANGED <<documents, indexFile, engine, ret, route, emb, rb, cleaner, lastCall>>

(* Lines 15-17: nlist = min(100, n_vectors // 10) and the empty            *)
(* IndexIVFFlat of nlist inverted lists.                                   *)
ConvNewIndex ==
    /\ conv.pc = "extract"
    /\ Len(conv.vectors) = conv.n_vectors
    /\ conv' = [conv EXCEPT
                   !.nlist = IF FixedCap < conv.n_vectors \div 10
                             THEN FixedCap ELSE conv.n_vectors \div 10,
                   !.pc = "train"]
    /\ UNCHANGED <<documents, indexFile, engine, ret, route, emb, rb, cleaner, lastCall>>

(* Line 20: new_index.train(vectors).  The clustering needs at least nlist *)
(* training vectors and raises with fewer.  With nlist = 0 there is        *)
(* nothing to cluster: the library either refuses or reports the index     *)
(* trained, with no list to hold a vector.                                 *)
ConvTrain ==
    /\ conv.pc = "train"
    /\ \E refuses \in BOOLEAN :
          conv' = IF (conv.nlist = 0 /\ refuses) \/ conv.n_vectors < conv.nlist
                  THEN [conv EXCEPT !.pc = "failed"]
                  ELSE [conv EXCEPT !.is_trained = TRUE, !.pc = "add"]
    /\ UNCHANGED <<documents, indexFile, engine, ret, route, emb, rb, cleaner, lastCall>>

(* Line 21: new_index.add(vectors): every vector goes to the inverted list *)
(* of its nearest centroid; with no list none is stored, while ntotal      *)
(* still counts them.                                                      *)
ConvAdd ==
    /\ conv.pc = "add"
    /\ conv' = [conv EXCEPT !.lists = IF conv.nlist >= 1 THEN conv.vectors ELSE <<>>,
                            !.ntotal = conv.n_vectors,
                            !.pc = "write"]
    /\ UNCHANGED <<documents, indexFile, engine, ret, route, emb, rb, cleaner, lastCall>>

(* Line 23: faiss.write_index(new_index, "visualisation_index.faiss"). *)
ConvWriteIndex ==
    /\ conv.pc = "write"
    /\ conv' = [conv EXCEPT !.written = TRUE, !.pc = "done"]
    /\ UNCHANGED <<documents, indexFile, engine, ret, route, emb, rb, cleaner, lastCall>>

(* The script is run on no index file, or on one of 0..MaxVectors or of    *)
(* LargeIndex vectors.                                                     *)
InitConvert ==
    /\ documents = <<>>
    /\ indexFile \in {NoFile} \cup
                     {RebuiltFrom(n) : n \in (0..MaxVectors) \cup {LargeIndex}}
    /\ engine = NoEngine
    /\ ret = NoRet
    /\ route = NoRoute
    /\ emb = NoEmb
    /\ rb = NoRebuild
    /\ cleaner = NoCleaner
    /\ lastCall = NoCall
    /\ conv = NoConv

NextConvert ==
    \/ ConvReadIndex
    \/ ConvReconstruct
    \/ ConvNewIndex
    \/ ConvTrain
    \/ ConvAdd
    \/ ConvWriteIndex

SpecConvert == InitConvert /\ [][NextConvert]_vars

(***************************************************************************)
(* Properties of the router.                                               *)
(***************************************************************************)
(* The groups the routing contract names for q: a group is named when one  *)
(* of its keywords occurs in the lower-cased q.                            *)
MatchedGroups(q) ==
    {g \in GroupNames :
        \E n \in DOMAIN QUERY_KEYWORDS :
            /\ QUERY_KEYWORDS[n].group = g
            /\ IsSubstring(QUERY_KEYWORDS[n].keyword, Lower(q))}

(* C10: get_categories_for_query(q) returns a duplicate-free list holding  *)
(* exactly the union of CATEGORY_GROUPS[g] over the groups g with a        *)
(* keyword that is a substring of the lower-cased q, and the empty list    *)
(* when no keyword is a substring, in particular for q = "".               *)
C10_RoutingResult ==
    route.status = "returned" =>
        /\ NoDuplicates(route.categories)
        /\ Range(route.categories)
             = UNION {Range(CATEGORY_GROUPS[g]) : g \in MatchedGroups(route.query)}
        /\ (MatchedGroups(route.query) = {} => route.categories = <<>>)
        /\ (route.query = <<>> => route.categories = <<>>)

(* C10 witness: a routed query matching keywords of two groups that share  *)
(* tags, and the routed empty query.                                       *)
C10_Witness ==
    /\ route.status = "returned"
    /\ Cardinality(MatchedGroups(route.query)) >= 2
    /\ \E g, h \in MatchedGroups(route.query) :
          g /= h /\ Range(CATEGORY_GROUPS[g]) \cap Range(CATEGORY_GROUPS[h]) /= {}

(***************************************************************************)
(* Properties of the retrieval engine.                                     *)
(***************************************************************************)
Called == ret.status /= "none"

(* Every index position has its corpus row: rowid = position + 1. *)
AllPositionsHaveRows == \A p \in 0..(ntotal - 1) : GeneralRowOf(p) \in DOMAIN documents

(* C1: fallback gate.  When the routed category set is non-empty and the   *)
(* scoped search returned a non-empty list with best similarity s: if      *)
(* s >= 0.40 the scoped list is returned and general search is not         *)
(* invoked; if s < 0.40 the scoped list is discarded and the call ends as  *)
(* general search ends.                                                    *)
C1_FallbackGate ==
    (Called /\ ret.categories /= <<>> /\ ret.scoped_docs /= <<>>) =>
        LET s == ret.scoped_docs[1].similarity_score
            general == search_general(ret.top_k, ret.sims)
        IN /\ s >= 40 => /\ ret.status = "returned"
                         /\ ret.docs = ret.scoped_docs
                         /\ ~ret.general_called
           /\ s < 40 => /\ ret.general_called
                        /\ ret.docs = general.docs
                        /\ (ret.status = "raised") = general.raised

(* C2: general search with k >= 1 on an index of at least k vectors whose  *)
(* positions all have corpus rows returns exactly k results; the j-th is   *)
(* the row of the j-th position the index returned, its similarity_score   *)
(* is the j-th inner product the index returned, and the scores descend.   *)
C2_GeneralResult ==
    (Called /\ ret.general_called /\ ret.top_k >= 1 /\ ret.top_k <= ntotal
        /\ AllPositionsHaveRows) =>
        /\ ret.status = "returned"
        /\ Len(ret.docs) = ret.top_k
        /\ \A j \in DOMAIN ret.docs :
              /\ ret.docs[j].row = ret.hits[j].idx + 1
              /\ ret.docs[j].similarity_score = ret.hits[j].sim
        /\ \A i, j \in DOMAIN ret.docs :
              i < j => ret.docs[i].similarity_score >= ret.docs[j].similarity_score

(* The corpus of the end-to-end scenario: three documents, one of each of  *)
(* the categories power_platform, azure_core and microsoft_365, indexed in *)
(* row order.                                                              *)
ScenarioCorpus ==
    /\ DOMAIN documents = 1..3
    /\ {documents[r].category : r \in 1..3}
         = {"power_platform", "azure_core", "microsoft_365"}
    /\ ntotal = 3

(* The stub embedding provider of the scenario: the vector of the          *)
(* power_platform document has similarity >= 0.40 with the query, above    *)
(* that of the other two.                                                  *)
ScenarioStub ==
    \A r \in 1..3 :
        documents[r].category = "power_platform" =>
            /\ ret.sims[r] >= 40
            /\ \A o \in 1..3 : o /= r => ret.sims[o] < ret.sims[r]

(* C5: on the scenario corpus the query "How do I create a Power App?"     *)
(* routes to a non-empty set of power_platform tags, scoped search returns *)
(* the power_platform document as top-1 with similarity >= 0.40, and the   *)
(* general search path is never invoked.                                   *)
C5_ScopedScenario ==
    (Called /\ ret.query = QPowerApp /\ ScenarioCorpus /\ ScenarioStub) =>
        /\ ret.categories /= <<>>
        /\ Range(ret.categories) \subseteq Range(CATEGORY_GROUPS["power_platform"])
        /\ ret.scoped_docs /= <<>>
        /\ documents[ret.scoped_docs[1].row].category = "power_platform"
        /\ ret.scoped_docs[1].similarity_score >= 40
        /\ ~ret.general_called

(* C6 as stated: the query "asdkjh random gibberish" routes to the empty   *)
(* category set, so scoped search never runs and retrieval goes straight   *)
(* to general search.                                                      *)
C6_GibberishRoutesNowhere ==
    (Called /\ ret.query = QGibberish) =>
        /\ ret.categories = <<>>
        /\ ~ret.scoped_called
        /\ ret.general_called

(* C6 amended: the query "asdkjh random gibberish" contains the keyword    *)
(* "rand", so it routes to exactly the power_platform tags and scoped      *)
(* search runs first; general search is invoked only as the fallback, when *)
(* scoped search returned nothing or its best similarity is not above 0.4. *)
C6_GibberishRoutesToPowerPlatform ==
    (Called /\ ret.query = QGibberish) =>
        /\ Range(ret.categories) = Range(CATEGORY_GROUPS["power_platform"])
        /\ ret.scoped_called
        /\ ret.general_called =>
              \/ ret.scoped_docs = <<>>
              \/ ret.scoped_docs[1].similarity_score <= 40

(* C6 witness: the gibberish query answered from the scoped path alone. *)
C6_Witness ==
    /\ ret.status = "returned"
    /\ ret.query = QGibberish
    /\ ret.scoped_called
    /\ ret.docs /= <<>>
    /\ ~ret.general_called

(* C7: on an index of N < k vectors the general path treats every         *)
(* returned position -1 as "no further match": it does not raise, returns  *)
(* exactly the results of the N valid positions and nothing hydrated from  *)
(* position -1.                                                            *)
C7_NoFurtherMatchFiltered ==
    (Called /\ ret.general_called /\ ntotal < ret.top_k /\ AllPositionsHaveRows) =>
        /\ ret.status = "returned"
        /\ Len(ret.docs) = ntotal
        /\ \A j \in DOMAIN ret.docs :
              ret.docs[j].row = ret.hits[j].idx + 1 /\ ret.docs[j].row /= 0

(* C8: when the loaded index's vector count differs from the number of     *)
(* corpus rows, startup fails and no query is served against the index.    *)
C8_LoadTimeValidation ==
    (engine.status /= "not_started" /\ indexFile.state = "complete"
        /\ Len(indexFile.vecs) /= Cardinality(DOMAIN documents)) =>
        /\ engine.status = "failed"
        /\ ~Called

(***************************************************************************)
(* Properties of the index builders.                                       *)
(***************************************************************************)
(* C3: in an index built by the Embedder pipeline, for every position p    *)
(* the corpus row retrieval associates with p (rowid p + 1 in general      *)
(* search; the row whose rowid - 1 is p in scoped search) is the source    *)
(* document of the chunk added at p, whatever the corpus.                  *)
C3_OrdinalBinding ==
    emb.pc = "done" =>
        \A p \in 0..(Len(indexFile.vecs) - 1) :
            /\ emb.documents[p + 1].original_id = GeneralRowOf(p)
            /\ \A r \in DOMAIN documents :
                  ScopedPositionOf(r) = p => emb.documents[p + 1].original_id = r

(* C4: after row deletions by the cleaner followed by rebuild_index, for   *)
(* every row scoped search fetches, the vector reconstructed at position   *)
(* rowid - 1 is the vector rebuild_index computed from that row's content. *)
C4_ScopedPositionAfterRebuild ==
    (/\ cleaner.pc /= "running"
     /\ rb.pc = "done"
     /\ rb.all_docs = [i \in 1..Len(TableRowids) |-> ContentOf(TableRowids[i])]
     /\ engine.status = "serving"
     /\ engine.index = rb.new_index) =>
        \A r \in DOMAIN documents :
            /\ CanReconstruct(ScopedPositionOf(r))
            /\ engine.index[ScopedPositionOf(r) + 1] = ContentOf(r)

(* C9: while rebuild_index runs, the file at the serving path is at every  *)
(* instant a complete index, the previous or the new one, and no reader    *)
(* fails on or loads a partially written index.                            *)
C9_RebuildInvisible ==
    /\ indexFile.state = "complete"
    /\ engine.status /= "failed"

(***************************************************************************)
(* Properties of the chunker                                               *)
(***************************************************************************)
(* A call of chunk_document has returned. *)
Chunked == lastCall.fn = "chunk_document" /\ lastCall.returned

(* The words of the chunks one after another. *)
RECURSIVE WordsOfChunks(_)
WordsOfChunks(chunks) ==
    IF chunks = <<>> THEN <<>>
    ELSE Split(Head(chunks)) \o WordsOfChunks(Tail(chunks))

(* C11: for a content of w > max_words words chunk_document returns        *)
(* ceil(w / max_words) chunks (4 of them when w = 3 * max_words + r with   *)
(* 0 < r < max_words); every chunk but the last has exactly max_words      *)
(* words, the last has between 1 and max_words, and the words of the       *)
(* chunks in order are the words of the content.                           *)
C11_LongContentChunks ==
    LET words == Split(lastCall.content)
        w == Len(words)
        limit == lastCall.max_words
        chunks == lastCall.chunks
        count == Len(chunks)
    IN (Chunked /\ w > limit) =>
           /\ (count - 1) * limit < w
           /\ w <= count * limit
           /\ (\E r \in 1..(limit - 1) : w = 3 * limit + r) => count = 4
           /\ \A n \in 1..(count - 1) : Len(Split(chunks[n])) = limit
           /\ Len(Split(chunks[count])) \in 1..limit
           /\ WordsOfChunks(chunks) = words

(* A content of 3 * max_words + r words, 0 < r < max_words, with words of  *)
(* different lengths, was cut into four chunks.                            *)
C11_Witness ==
    LET words == Split(lastCall.content)
        limit == lastCall.max_words
    IN /\ Chunked
       /\ \E r \in 1..(limit - 1) : Len(words) = 3 * limit + r
       /\ \E n \in 1..Len(words) : Len(words[n]) > 1
       /\ Len(lastCall.chunks) = 4

(* C12: for a content of at most max_words words, exactly max_words and    *)
(* the empty content included, chunk_document returns one chunk, which is  *)
(* the content unchanged.                                                  *)
C12_ShortContentUnchanged ==
    (Chunked /\ Len(Split(lastCall.content)) <= lastCall.max_words) =>
        lastCall.chunks = <<lastCall.content>>

(* A content of exactly max_words words whose whitespace a split and join  *)
(* would change came back as the one chunk.                                *)
C12_Witness ==
    /\ Chunked
    /\ Len(Split(lastCall.content)) = lastCall.max_words
    /\ Join(Split(lastCall.content)) /= lastCall.content
    /\ Len(lastCall.chunks) = 1

(***************************************************************************)
(* Properties of retrieval on a stale index                                *)
(***************************************************************************)
(* The results general search is to give for the hits of the index: one    *)
(* per hit whose position has a corpus row, in the order of the hits.      *)
RECURSIVE HitsWithRows(_)
HitsWithRows(hits) ==
    IF hits = <<>> THEN <<>>
    ELSE (IF Head(hits).idx >= 0 /\ GeneralRowOf(Head(hits).idx) \in DOMAIN documents
          THEN <<[similarity_score |-> Head(hits).sim,
                  row |-> GeneralRowOf(Head(hits).idx)]>>
          ELSE <<>>)
         \o HitsWithRows(Tail(hits))

(* C13: when general search gets from the index a position that has no     *)
(* corpus row, that hit is left out, the remaining hits are returned in    *)
(* order, and the query does not fail.                                     *)
C13_StaleIndexGeneral ==
    (/\ Called
     /\ ret.general_called
     /\ \E j \in DOMAIN ret.hits :
           /\ ret.hits[j].idx >= 0
           /\ GeneralRowOf(ret.hits[j].idx) \notin DOMAIN documents) =>
        /\ ret.status = "returned"
        /\ ret.docs = HitsWithRows(ret.hits)

(***************************************************************************)
(* Properties of the result list                                           *)
(***************************************************************************)
(* The candidates of the scoped search of the call: the rows of a routed   *)
(* category whose position rowid - 1 the index holds.                      *)
ScopedCandidates ==
    {r \in DOMAIN documents :
        /\ documents[r].category \in Range(ret.categories)
        /\ CanReconstruct(ScopedPositionOf(r))}

(* C14: for every query and k >= 1 retrieve_documents returns at most k    *)
(* results; the list of the scoped search is sorted by non-increasing      *)
(* similarity and is made of the k candidates of highest similarity, of    *)
(* all candidates when there are fewer than k; it is the list returned     *)
(* when the call ends on the scoped path.                                  *)
C14_BoundAndOrder ==
    Called =>
        /\ Len(ret.docs) <= ret.top_k
        /\ ~ret.general_called => ret.docs = ret.scoped_docs
        /\ ret.scoped_called =>
              LET docs == ret.scoped_docs
                  rows == {docs[j].row : j \in DOMAIN docs}
              IN /\ Len(docs) = IF Cardinality(ScopedCandidates) < ret.top_k
                                THEN Cardinality(ScopedCandidates) ELSE ret.top_k
                 /\ Cardinality(rows) = Len(docs)
                 /\ rows \subseteq ScopedCandidates
                 /\ \A j \in DOMAIN docs :
                       docs[j].similarity_score = ret.sims[docs[j].row]
                 /\ \A i, j \in DOMAIN docs :
                       i < j => docs[i].similarity_score >= docs[j].similarity_score
                 /\ \A r \in ScopedCandidates \ rows : \A j \in DOMAIN docs :
                       docs[j].similarity_score >= ret.sims[r]

(* A call that ended on the scoped path with more candidates than k, the   *)
(* candidate left out being the first of the table and of lower            *)
(* similarity than those returned.                                         *)
C14_Witness ==
    /\ Called
    /\ ret.status = "returned"
    /\ ~ret.general_called
    /\ Cardinality(ScopedCandidates) > ret.top_k
    /\ Len(ret.docs) = ret.top_k
    /\ \E r \in ScopedCandidates :
          /\ \A j \in DOMAIN ret.docs :
                ret.docs[j].row > r /\ ret.docs[j].similarity_score > ret.sims[r]

(***************************************************************************)
(* Properties of the conversion script                                     *)
(***************************************************************************)
(* C15: conversion.py sets the partition count of the clustered index to   *)
(* min(100, N // 10); for every index size N >= 1, small N included, this  *)
(* is a valid count of at least 1 and the new index is trained and then    *)
(* populated with all N vectors.                                           *)
C15_PartitionCount ==
    (conv.n_vectors >= 1 /\ conv.pc \in {"train", "add", "write", "done", "failed"}) =>
        /\ conv.nlist >= 1
        /\ conv.nlist <= FixedCap
        /\ conv.nlist * 10 <= conv.n_vectors
        /\ conv.nlist = FixedCap \/ conv.n_vectors < (conv.nlist + 1) * 10
        /\ conv.pc /= "failed"
        /\ conv.pc \in {"add", "write", "done"} => conv.is_trained
        /\ conv.pc \in {"write", "done"} => conv.lists = conv.index

(***************************************************************************)
(* Properties of retrieval as a reader                                     *)
(***************************************************************************)
(* C16: no execution of retrieve_documents, on the scoped path, the        *)
(* general path or the fallback from one to the other, completed or        *)
(* failed, changes a corpus row or a vector of the index or their order:   *)
(* a step that records a retrieval leaves the table, the loaded index and  *)
(* the index file as they were.                                            *)
C16_RetrievalReadOnly ==
    [][ret' /= ret =>
          /\ documents' = documents
          /\ engine' = engine
          /\ indexFile' = indexFile]_vars

(* A retrieval went through the scoped search and the fallback and failed  *)
(* in the general search, on a corpus and an index that are not empty.     *)
C16_Witness ==
    /\ Called
    /\ ret.scoped_called
    /\ ret.scoped_docs /= <<>>
    /\ ret.general_called
    /\ ret.status = "raised"
    /\ documents /= <<>>
    /\ ntotal > 0

(***************************************************************************)
(* Properties of the Embedder                                              *)
(***************************************************************************)
(* The documents load_documents gave to process_documents. *)
LoadedOnes == LoadedDocuments(TableRowids)

(* The positions of the chunk records of the document of id d. *)
RecordsOf(d) == {p \in DOMAIN emb.documents : emb.documents[p].original_id = d}

(* C17: process_documents gives each document n >= 1 consecutive chunk     *)
(* records with chunk_index 0, 1, ..., n - 1 in order, total_chunks = n,   *)
(* id "<document id>_chunk_<chunk_index>" and original_id the document     *)
(* id; the runs of the documents follow each other in the order of the     *)
(* documents and nothing else is in the list.                              *)
C17_ChunkBookkeeping ==
    emb.pc \notin {"load", "process"} =>
        /\ \A p \in DOMAIN emb.documents :
              \E j \in DOMAIN LoadedOnes : emb.documents[p].original_id = LoadedOnes[j].id
        /\ \A j \in DOMAIN LoadedOnes :
              LET d == LoadedOnes[j].id
                  n == Cardinality(RecordsOf(d))
              IN /\ n >= 1
                 /\ \E first \in DOMAIN emb.documents :
                       /\ RecordsOf(d) = first..(first + n - 1)
                       /\ \A i \in 0..(n - 1) :
                             LET c == emb.documents[first + i]
                             IN /\ c.chunk_index = i
                                /\ c.total_chunks = n
                                /\ c.id = [of |-> d, chunk |-> i]
                                /\ c.original_id = d
        /\ \A i, j \in DOMAIN LoadedOnes :
              i < j => \A p \in RecordsOf(LoadedOnes[i].id),
                          q \in RecordsOf(LoadedOnes[j].id) : p < q

(* A document of three chunks was processed between two other documents. *)
C17_Witness ==
    /\ emb.pc \notin {"load", "process"}
    /\ Len(LoadedOnes) = 3
    /\ Cardinality(RecordsOf(LoadedOnes[2].id)) = 3
    /\ Cardinality(RecordsOf(LoadedOnes[1].id)) = 2

(***************************************************************************)
(* Properties of the cleaner                                               *)
(***************************************************************************)
(* C18: whatever the batch size and whatever documents the run deletes,    *)
(* clean_documents examines every document present at its start (exactly   *)
(* once), so that the processed count of a finished run is the row count   *)
(* read at its start.                                                      *)
C18_CleanerProcessesAll ==
    cleaner.pc = "done" => cleaner.processed = cleaner.total_count

(***************************************************************************)
(* Properties of the Embedder methods called in any order                  *)
(***************************************************************************)
(* C19: whatever the order of the calls on an Embedder,                    *)
(* generate_embeddings with no documents loaded raises, create_index with  *)
(* no embeddings raises and save_all with no index raises; a call that     *)
(* raises leaves documents, embeddings and index as they were and writes   *)
(* no index file; so an index file exists only once documents were loaded, *)
(* embedded and indexed.                                                   *)
C19_BuildGuards ==
    /\ [][lastCall' /= lastCall =>
            /\ (lastCall'.fn = "generate_embeddings" /\ emb.documents = <<>>)
                  => lastCall'.raised
            /\ (lastCall'.fn = "create_index" /\ ~emb.has_embeddings)
                  => lastCall'.raised
            /\ (lastCall'.fn = "save_all" /\ ~emb.has_index)
                  => lastCall'.raised
            /\ lastCall'.raised =>
                  /\ emb'.documents = emb.documents
                  /\ emb'.embeddings = emb.embeddings
                  /\ emb'.has_embeddings = emb.has_embeddings
                  /\ emb'.index = emb.index
                  /\ emb'.has_index = emb.has_index
                  /\ indexFile' = indexFile]_vars
    /\ [](indexFile /= NoFile =>
            /\ emb.documents /= <<>>
            /\ emb.has_embeddings
            /\ emb.embeddings /= <<>>
            /\ emb.has_index
            /\ indexFile.state = "complete"
            /\ indexFile.vecs = emb.index)

(* With documents loaded and embedded but no index created, save_all was   *)
(* called: it raised and there is no index file.                           *)
C19_Witness ==
    /\ lastCall.fn = "save_all"
    /\ lastCall.raised
    /\ emb.documents /= <<>>
    /\ emb.has_embeddings
    /\ ~emb.has_index
    /\ indexFile = NoFile

(***************************************************************************)
(* Properties of the scoped search on a stale index                        *)
(***************************************************************************)
(* The rows of a routed category whose position rowid - 1 is not in the    *)
(* index.                                                                  *)
OutOfRangeCandidates ==
    {r \in DOMAIN documents :
        /\ documents[r].category \in Range(ret.categories)
        /\ ~CanReconstruct(ScopedPositionOf(r))}

(* C20: in search_by_category a candidate whose position rowid - 1 is      *)
(* outside [0, N) is skipped; every other candidate is still scored and    *)
(* eligible: it is in the result, or the result is full with k entries of  *)
(* no lower similarity; and the search does not fail the query: its list   *)
(* reaches the gate of retrieve_documents, which returns it when it        *)
(* accepts it.                                                             *)
C20_OutOfRangeSkipped ==
    (Called /\ ret.scoped_called /\ OutOfRangeCandidates /= {}) =>
        LET docs == ret.scoped_docs
            rows == {docs[j].row : j \in DOMAIN docs}
        IN /\ rows \cap OutOfRangeCandidates = {}
           /\ \A r \in ScopedCandidates :
                 \/ r \in rows
                 \/ /\ Len(docs) = ret.top_k
                    /\ \A j \in DOMAIN docs : docs[j].similarity_score >= ret.sims[r]
           /\ \A j \in DOMAIN docs : docs[j].similarity_score = ret.sims[docs[j].row]
           /\ (docs /= <<>> /\ docs[1].similarity_score > Threshold) =>
                 /\ ret.status = "returned"
                 /\ ret.docs = docs

(* A scoped search with a candidate out of range and one in range, which   *)
(* was scored and returned.                                                *)
C20_Witness ==
    /\ Called
    /\ ret.scoped_called
    /\ OutOfRangeCandidates /= {}
    /\ ScopedCandidates /= {}
    /\ ret.status = "returned"
    /\ Len(ret.docs) = Cardinality(ScopedCandidates)
    /\ Len(ret.docs) < ret.top_k

(* C21: after any sequence of calls on an Embedder, repeated               *)
(* load_documents or process_documents between generate_embeddings and     *)
(* create_index included, whenever index is set it holds as many vectors   *)
(* as documents holds records, and vector i was computed from the content  *)
(* of record i.                                                            *)
C21_IndexAgreesWithDocuments ==
    emb.has_index =>
        /\ Len(emb.index) = Len(emb.documents)
        /\ \A i \in DOMAIN emb.index : emb.index[i] = emb.documents[i].content

====
